---- MODULE Spec2Model ----
(***************************************************************************)
(* Model of the retail-assistant query-refinement and result-selection     *)
(* pipeline of 03-creating-llm-functions.ipynb: get_asin_list,             *)
(* filter_image_url, url_image_processing, pick_img and refine_query.      *)
(*                                                                         *)
(* Python values are records [t |-> type, v |-> payload]; strings are      *)
(* sequences of one-character strings.  The remote collaborators (object   *)
(* storage, the language model) are inputs of each call: the outcome       *)
(* of every fetch and the text of every completion are chosen by the       *)
(* environment and recorded in `world`.                                    *)
(***************************************************************************)
EXTENDS Integers, Sequences, FiniteSets, TLC

VARIABLES phase, op, args, world, ret, convs, root_level, heap

vars == <<phase, op, args, world, ret, convs, root_level, heap>>

(***************************************************************************)
(* Bounds of the model.                                                    *)
(***************************************************************************)
MaxHist == 5
MaxText == 3
MaxImgs == 3
MaxHits == 3
MaxAsin == 3
MaxTurns == 2
MaxCalls == 4

(***************************************************************************)
(* Python values.                                                          *)
(***************************************************************************)
None == [t |-> "None", v |-> <<>>]

PyList(s) == [t |-> "list", v |-> s]

PyStr(s) == [t |-> "str", v |-> s]

\* bool(x) for the values the pipeline tests with `if x:`
Truthy(x) == x.t # "None" /\ x.v # <<>>

SeqsUpTo(S, n) == UNION {[1..k -> S] : k \in 0..n}

Take(s, n) == SubSeq(s, 1, IF Len(s) < n THEN Len(s) ELSE n)

Min(a, b) == IF a < b THEN a ELSE b

(***************************************************************************)
(* Strings: helpers that do what the str methods of the source do.         *)
(***************************************************************************)
Whitespace == {" ", "\n"}

RECURSIVE LStrip(_, _)
LStrip(s, chars) ==
    IF s # <<>> /\ Head(s) \in chars THEN LStrip(Tail(s), chars) ELSE s

RECURSIVE RStrip(_, _)
RStrip(s, chars) ==
    IF s # <<>> /\ s[Len(s)] \in chars
    THEN RStrip(SubSeq(s, 1, Len(s) - 1), chars) ELSE s

\* str.strip(chars)
Strip(s, chars) == RStrip(LStrip(s, chars), chars)

IsPrefix(p, s) == Len(p) <= Len(s) /\ SubSeq(s, 1, Len(p)) = p

\* str.replace(old, ''), old non-empty
RECURSIVE RemoveAll(_, _)
RemoveAll(s, old) ==
    IF s = <<>> THEN <<>>
    ELSE IF IsPrefix(old, s)
         THEN RemoveAll(SubSeq(s, Len(old) + 1, Len(s)), old)
         ELSE <<Head(s)>> \o RemoveAll(Tail(s), old)

\* positions j > i of a '>' that closes '<' at i under the pattern '<.*?>':
\* '.' matches any character except a newline
TagEnds(s, i) ==
    {j \in (i + 1)..Len(s) :
        s[j] = ">" /\ \A k \in (i + 1)..(j - 1) : s[k] # "\n"}

SetMin(S) == CHOOSE m \in S : \A n \in S : m <= n

\* re.sub(re.compile('<.*?>'), '', text) from position i on
RECURSIVE SubHtml(_, _)
SubHtml(s, i) ==
    IF i > Len(s) THEN <<>>
    ELSE IF s[i] = "<" /\ TagEnds(s, i) # {}
         THEN SubHtml(s, SetMin(TagEnds(s, i)) + 1)
         ELSE <<s[i]>> \o SubHtml(s, i + 1)

\* the literal r'/[^a-zA-Z0-9 ]' that clean_text hands to str.replace
EscapeArtifact ==
    <<"/", "[", "^", "a", "-", "z", "A", "-", "Z", "0", "-", "9", " ", "]">>

clean_text(text) ==
    Strip(RemoveAll(SubHtml(text, 1), EscapeArtifact), Whitespace)

(***************************************************************************)
(* Object storage as the image helpers see it.  Every fetch of a URL has   *)
(* one of three outcomes, chosen by the environment: a decodable image,    *)
(* an answer that is no image (a not-found page), or a failed transfer.    *)
(***************************************************************************)
URLs == {"A", "B", "C"}

Outcomes == {"image", "notfound", "down"}

Url(u) == [t |-> "str", v |-> <<u>>]

\* the result of one call: what it returned or raised, the URLs it
\* fetched and the language-model requests it issued, in order
Returned(val, fetches, requests) ==
    [kind |-> "return", val |-> val, exc |-> "",
     fetches |-> fetches, requests |-> requests]

Raised(exc, fetches, requests) ==
    [kind |-> "raise", val |-> None, exc |-> exc,
     fetches |-> fetches, requests |-> requests]

\* the loop of filter_image_url: Image.open(requests.get(url).raw)
\* succeeds on a decodable image only; the bare except swallows the rest
RECURSIVE FilterLoop(_, _)
FilterLoop(urls, store) ==
    IF urls = <<>> THEN <<>>
    ELSE (IF store[Head(urls)] = "image" THEN <<Head(urls)>> ELSE <<>>)
         \o FilterLoop(Tail(urls), store)

filter_image_url_KeepAll(img_list, store) ==
    IF img_list.t # "list"
    THEN Raised("TypeError", <<>>, <<>>)
    ELSE IF Len(img_list.v) = 0
         THEN Returned(None, img_list.v, <<>>)
         ELSE Returned(PyList(img_list.v), img_list.v, <<>>)

\* the pass ends at the first URL that fails
RECURSIVE AbortingLoop(_, _)
AbortingLoop(urls, store) ==
    IF urls = <<>> \/ store[Head(urls)] # "image" THEN <<>>
    ELSE <<Head(urls)>> \o AbortingLoop(Tail(urls), store)

filter_image_url_Abort(img_list, store) ==
    IF img_list.t # "list"
    THEN Raised("TypeError", <<>>, <<>>)
    ELSE LET images == AbortingLoop(img_list.v, store)
         IN  IF Len(images) = 0
             THEN Returned(None, img_list.v, <<>>)
             ELSE Returned(PyList(images), img_list.v, <<>>)

filter_image_url(img_list, store) ==
    IF img_list.t # "list"
    THEN Raised("TypeError", <<>>, <<>>)   \* for url in None
    ELSE LET images == FilterLoop(img_list.v, store)
         IN  IF Len(images) = 0
             THEN Returned(None, img_list.v, <<>>)
             ELSE Returned(PyList(images), img_list.v, <<>>)

\* an absent URL read as an empty body
url_image_processing_NoneBlank(imgurl, store) ==
    IF imgurl.t = "None" THEN Returned(<<"blank">>, <<>>, <<>>)
    ELSE IF store[imgurl.v[1]] = "down"
         THEN Raised("ConnectionError", imgurl.v, <<>>)
         ELSE Returned(<<store[imgurl.v[1]], imgurl.v[1]>>, imgurl.v, <<>>)

\* requests.get(imgurl).content: raises when the URL is None or the
\* transfer fails; any HTTP answer, an error page included, is returned
url_image_processing(imgurl, store) ==
    IF imgurl.t = "None" THEN Raised("MissingSchema", <<>>, <<>>)
    ELSE IF store[imgurl.v[1]] = "down"
         THEN Raised("ConnectionError", imgurl.v, <<>>)
         ELSE Returned(<<store[imgurl.v[1]], imgurl.v[1]>>, imgurl.v, <<>>)

get_base64_from_bytes(image_bytes) == <<"b64">> \o image_bytes

TextBlock(label, text) ==
    [type |-> "text", label |-> label, text |-> text,
     media_type |-> "", data |-> <<>>]

ImageBlock(image_data) ==
    [type |-> "image", label |-> "", text |-> <<>>,
     media_type |-> "image/jpeg", data |-> image_data]

Request(system, max_tokens, content) ==
    [system |-> system, max_tokens |-> max_tokens, temperature |-> 0,
     content |-> content]

(***************************************************************************)
(* refine_query                                                            *)
(***************************************************************************)
RefineMaxTokens == 4000

PastBreakIndex == 3

HistoryKeep == 3

\* every entry of the history from index i on, no break
PastBlocks_All(query_history, i) ==
    [k \in 1..(Len(query_history) - i) |->
        TextBlock("PAST USER QUERY: ", query_history[i + k])]

\* for i, query in enumerate(query_history): append; if i==3: break
RECURSIVE PastBlocks(_, _)
PastBlocks(query_history, i) ==
    IF i >= Len(query_history) THEN <<>>
    ELSE <<TextBlock("PAST USER QUERY: ", query_history[i + 1])>>
         \o (IF i = PastBreakIndex THEN <<>>
             ELSE PastBlocks(query_history, i + 1))

HistoryUpdate_Append(output_query, query_history) ==
    IF Truthy(query_history)
    THEN Take(query_history.v \o <<output_query>>, 3)
    ELSE <<output_query>>

HistoryUpdate_NoTrim(output_query, query_history) ==
    IF Truthy(query_history)
    THEN <<output_query>> \o query_history.v
    ELSE <<output_query>>

HistoryUpdate_KeepLast(output_query, query_history) ==
    IF Truthy(query_history)
    THEN LET l == <<output_query>> \o query_history.v
         IN  SubSeq(l, IF Len(l) > 3 THEN Len(l) - 2 ELSE 1, Len(l))
    ELSE <<output_query>>

\* query_list = ([output_query] + query_history)[:3], or [output_query]
HistoryUpdate(output_query, query_history) ==
    IF Truthy(query_history)
    THEN Take(<<output_query>> \o query_history.v, HistoryKeep)
    ELSE <<output_query>>

\* the product's image block put before its title block
refine_query_ImageFirst(input_text, query_history, product, w) ==
    LET current == <<TextBlock("CURRENT USER QUERY: ", input_text)>>
        past    == IF Truthy(query_history)
                   THEN PastBlocks(query_history.v, 0) ELSE <<>>
        fetched == url_image_processing(product.image, w.store)
        prod    == <<ImageBlock(get_base64_from_bytes(fetched.val)),
                     TextBlock("IMAGE title: ", product.title)>>
        content == current \o past \o (IF product.t = "dict" THEN prod ELSE <<>>)
        fetches == IF product.t = "dict" THEN fetched.fetches ELSE <<>>
        request == Request("refine", RefineMaxTokens, content)
        output_query == clean_text(w.llm.text)
    IN  IF product.t = "dict" /\ fetched.kind = "raise"
        THEN Raised(fetched.exc, fetched.fetches, <<>>)
        ELSE IF w.llm.status = "transport"
             THEN Raised("ClientError", fetches, <<request>>)
        ELSE IF w.llm.status = "envelope"
             THEN Raised("KeyError", fetches, <<request>>)
        ELSE Returned(<<output_query, HistoryUpdate(output_query, query_history)>>,
                      fetches, <<request>>)

\* a failed model call answered with the raw user text
refine_query_Fallback(input_text, query_history, product, w) ==
    LET current == <<TextBlock("CURRENT USER QUERY: ", input_text)>>
        past    == IF Truthy(query_history)
                   THEN PastBlocks(query_history.v, 0) ELSE <<>>
        fetched == url_image_processing(product.image, w.store)
        prod    == <<TextBlock("IMAGE title: ", product.title),
                     ImageBlock(get_base64_from_bytes(fetched.val))>>
        content == current \o past \o (IF product.t = "dict" THEN prod ELSE <<>>)
        fetches == IF product.t = "dict" THEN fetched.fetches ELSE <<>>
        request == Request("refine", RefineMaxTokens, content)
        output_query == IF w.llm.status = "ok"
                        THEN clean_text(w.llm.text) ELSE input_text
    IN  IF product.t = "dict" /\ fetched.kind = "raise"
        THEN Raised(fetched.exc, fetched.fetches, <<>>)
        ELSE Returned(<<output_query, HistoryUpdate(output_query, query_history)>>,
                      fetches, <<request>>)

\* w.store: outcome of a fetch of each URL; w.llm: the answer of the
\* language-model service, [status, text]
refine_query(input_text, query_history, product, w) ==
    LET current == <<TextBlock("CURRENT USER QUERY: ", input_text)>>
        past    == IF Truthy(query_history)
                   THEN PastBlocks(query_history.v, 0) ELSE <<>>
        fetched == url_image_processing(product.image, w.store)
        prod    == <<TextBlock("IMAGE title: ", product.title),
                     ImageBlock(get_base64_from_bytes(fetched.val))>>
        content == current \o past \o (IF product.t = "dict" THEN prod ELSE <<>>)
        fetches == IF product.t = "dict" THEN fetched.fetches ELSE <<>>
        request == Request("refine", RefineMaxTokens, content)
        output_query == clean_text(w.llm.text)
    IN  IF product.t = "dict" /\ fetched.kind = "raise"
        THEN Raised(fetched.exc, fetched.fetches, <<>>)
        ELSE IF w.llm.status = "transport"
             THEN Raised("ClientError", fetches, <<request>>)
        ELSE IF w.llm.status = "envelope"
             THEN Raised("KeyError", fetches, <<request>>)
        ELSE Returned(<<output_query, HistoryUpdate(output_query, query_history)>>,
                      fetches, <<request>>)

\* query_history.insert(0, output_query) in place of the concatenation
HistoryAfter_Insert(output_query, query_history) ==
    IF Truthy(query_history)
    THEN PyList(<<output_query>> \o query_history.v)
    ELSE query_history

\* the caller's list after lines 665-669: [output_query] + query_history
\* and query_list[:3] build new lists and leave their operands as they were
HistoryAfter(output_query, query_history) == query_history

\* the caller's objects after the call with outcome r: the history is
\* iterated (593) and concatenated (666), the product is subscripted
\* (602-604); returned: the list that the function returns is an object
\* built by the call ("new") or the caller's own ("same")
ArgsAfter(query_history, product, r) ==
    [query_history |-> IF r.kind = "return"
                       THEN HistoryAfter(r.val[1], query_history)
                       ELSE query_history,
     product |-> product,
     returned |-> IF r.kind = "return" THEN "new" ELSE "none"]

(***************************************************************************)
(* ast.literal_eval on the texts of the model: a signed decimal integer,   *)
(* a float, True/False/None, a comma-separated tuple of those; anything    *)
(* else raises.                                                            *)
(***************************************************************************)
Digits == <<"0", "1", "2", "3", "4", "5", "6", "7", "8", "9">>

IsDigit(c) == \E d \in 1..10 : Digits[d] = c

DigitVal(c) == (CHOOSE d \in 1..10 : Digits[d] = c) - 1

AllDigits(s) == \A i \in 1..Len(s) : IsDigit(s[i])

RECURSIVE DecVal(_)
DecVal(s) ==
    IF s = <<>> THEN 0
    ELSE 10 * DecVal(SubSeq(s, 1, Len(s) - 1)) + DigitVal(s[Len(s)])

\* a decimal integer literal: no leading zero unless every digit is zero
IsDecInt(s) ==
    /\ s # <<>>
    /\ AllDigits(s)
    /\ (Len(s) > 1 /\ s[1] = "0") => \A i \in 1..Len(s) : s[i] = "0"

IsFloat(s) ==
    \E d \in 1..Len(s) :
        /\ s[d] = "."
        /\ Len(s) > 1
        /\ AllDigits(SubSeq(s, 1, d - 1))
        /\ AllDigits(SubSeq(s, d + 1, Len(s)))

\* str.split(sep) for a one-character separator
RECURSIVE Split(_, _)
Split(s, sep) ==
    IF \A i \in 1..Len(s) : s[i] # sep THEN <<s>>
    ELSE LET i == SetMin({j \in 1..Len(s) : s[j] = sep})
         IN  <<SubSeq(s, 1, i - 1)>> \o Split(SubSeq(s, i + 1, Len(s)), sep)

PyInt(k) == [t |-> "int", v |-> <<k>>]

PyBool(b) == [t |-> "bool", v |-> <<IF b THEN 1 ELSE 0>>]

EvalError == [t |-> "error", v |-> <<>>]

EvalAtom(s) ==
    IF s = <<"T", "r", "u", "e">> THEN PyBool(TRUE)
    ELSE IF s = <<"F", "a", "l", "s", "e">> THEN PyBool(FALSE)
    ELSE IF s = <<"N", "o", "n", "e">> THEN None
    ELSE IF IsDecInt(s) THEN PyInt(DecVal(s))
    ELSE IF s # <<>> /\ Head(s) = "-" /\ IsDecInt(Tail(s))
         THEN PyInt(0 - DecVal(Tail(s)))
    ELSE IF IsFloat(s) \/ (s # <<>> /\ Head(s) = "-" /\ IsFloat(Tail(s)))
         THEN [t |-> "float", v |-> <<>>]
    ELSE EvalError

literal_eval(s) ==
    LET parts == Split(s, ",")
        items == IF Len(parts) > 1 /\ parts[Len(parts)] = <<>>
                 THEN SubSeq(parts, 1, Len(parts) - 1) ELSE parts
    IN  IF Len(parts) = 1 THEN EvalAtom(s)
        ELSE IF \A i \in 1..Len(items) : EvalAtom(items[i]).t # "error"
             THEN [t |-> "tuple", v |-> <<>>]
             ELSE EvalError

(***************************************************************************)
(* pick_img                                                                *)
(***************************************************************************)
PickMaxTokens == 10

Brackets == {"[", "]"}

\* try: answer = ast.literal_eval(answer.strip('[]'))  except: pass
ParseAnswer(answer) ==
    LET parsed == literal_eval(Strip(answer, Brackets))
    IN  IF parsed.t = "error" THEN PyStr(answer) ELSE parsed

\* isinstance(answer, int): bool is a subclass of int
IsInstanceInt(answer) == answer.t \in {"int", "bool"}

\* if img_list == None (line 480)
NoViableImage_EmptyList(img_list) == img_list = PyList(<<>>)

NoViableImage(img_list) == img_list = None

\* if isinstance(answer, int) and answer<len(img_list):
\*     return img_list[answer-1]   (a negative index counts from the end)
\* else: return None
SelectAnswer(answer, img_list) ==
    IF IsInstanceInt(answer) /\ answer.v[1] < Len(img_list)
    THEN LET i == answer.v[1] - 1
             j == IF i < 0 THEN i + Len(img_list) ELSE i
         IN  IF j < 0 \/ j >= Len(img_list)
             THEN [kind |-> "raise", val |-> None, exc |-> "IndexError"]
             ELSE [kind |-> "return", val |-> Url(img_list[j + 1]), exc |-> ""]
    ELSE [kind |-> "return", val |-> None, exc |-> ""]

\* only the first URL of the list is encoded
EncodeLoop_FirstOnly(urls, store) ==
    IF urls = <<>> THEN Returned(<<>>, <<>>, <<>>)
    ELSE LET fetched == url_image_processing(Url(Head(urls)), store)
         IN  IF fetched.kind = "raise"
             THEN Raised(fetched.exc, fetched.fetches, <<>>)
             ELSE Returned(<<ImageBlock(get_base64_from_bytes(fetched.val))>>,
                           fetched.fetches, <<>>)

\* for img in img_list: content.append(image block of the fetched bytes);
\* the first fetch that raises ends the loop
RECURSIVE EncodeLoop(_, _)
EncodeLoop(urls, store) ==
    IF urls = <<>> THEN Returned(<<>>, <<>>, <<>>)
    ELSE LET fetched == url_image_processing(Url(Head(urls)), store)
             rest    == EncodeLoop(Tail(urls), store)
         IN  IF fetched.kind = "raise"
             THEN Raised(fetched.exc, fetched.fetches, <<>>)
             ELSE IF rest.kind = "raise"
                  THEN Raised(rest.exc, fetched.fetches \o rest.fetches, <<>>)
                  ELSE Returned(
                         <<ImageBlock(get_base64_from_bytes(fetched.val))>>
                            \o rest.val,
                         fetched.fetches \o rest.fetches, <<>>)

\* w.store1: fetch outcomes while filtering; w.store2: fetch outcomes
\* while encoding; w.llm: the answer of the language-model service
pick_img(text_input, img_list, w) ==
    LET filtered == filter_image_url(img_list, w.store1)
        encoded  == EncodeLoop(filtered.val.v, w.store2)
        fetches  == filtered.fetches \o encoded.fetches
        request  == Request("pick", PickMaxTokens,
                            <<TextBlock("", text_input)>> \o encoded.val)
        picked   == SelectAnswer(ParseAnswer(w.llm.text), filtered.val.v)
    IN  IF filtered.kind = "raise"
        THEN Raised(filtered.exc, filtered.fetches, <<>>)
        ELSE IF NoViableImage(filtered.val)
             THEN Returned(None, filtered.fetches, <<>>)
        ELSE IF filtered.val.t # "list"
             THEN Raised("TypeError", filtered.fetches, <<>>)
        ELSE IF encoded.kind = "raise"
             THEN Raised(encoded.exc, fetches, <<>>)
        ELSE IF w.llm.status = "transport"
             THEN Raised("ClientError", fetches, <<request>>)
        ELSE IF w.llm.status = "envelope"
             THEN Raised("KeyError", fetches, <<request>>)
        ELSE IF picked.kind = "raise"
             THEN Raised(picked.exc, fetches, <<request>>)
        ELSE Returned(picked.val, fetches, <<request>>)

(***************************************************************************)
(* get_asin_list                                                           *)
(***************************************************************************)
Last(s) == s[Len(s)]

\* uri.split('/')[-1].split('.')[0]
AsinOf(uri) == Split(Last(Split(uri, "/")), ".")[1]

RECURSIVE AsinLoop(_)
AsinLoop(items) ==
    IF items = <<>> THEN <<>>
    ELSE <<AsinOf(Head(items).uri)>> \o AsinLoop(Tail(items))

\* type(search_list) == list: one stem per item; == str: indexing a str
\* with 'location' raises; anything else (None, a dict): None
get_asin_list(search_list) ==
    IF search_list.t = "list"
    THEN Returned(PyList(AsinLoop(search_list.v)), <<>>, <<>>)
    ELSE IF search_list.t = "str"
         THEN Raised("TypeError", <<>>, <<>>)
         ELSE Returned(None, <<>>, <<>>)

(***************************************************************************)
(* bedrock_kb_retrieve (util/bedrockkb.py)                                 *)
(***************************************************************************)
\* kb: the answer of client.retrieve, [status, results]
\* len 0: None; len 1: results.tolist(), and a list has no tolist;
\* otherwise the list
bedrock_kb_retrieve(kb) ==
    IF kb.status # "ok" THEN Raised("ClientError", <<>>, <<>>)
    ELSE IF Len(kb.results) = 0 THEN Returned(None, <<>>, <<>>)
    ELSE IF Len(kb.results) = 1 THEN Raised("AttributeError", <<>>, <<>>)
    ELSE Returned(PyList(kb.results), <<>>, <<>>)

(***************************************************************************)
(* get_info_from_db                                                        *)
(***************************************************************************)
UpperLetters ==
    {"A", "B", "C", "D", "E", "F", "G", "H", "I", "J", "K", "L", "M",
     "N", "O", "P", "Q", "R", "S", "T", "U", "V", "W", "X", "Y", "Z"}

LowerLetters ==
    {"a", "b", "c", "d", "e", "f", "g", "h", "i", "j", "k", "l", "m",
     "n", "o", "p", "q", "r", "s", "t", "u", "v", "w", "x", "y", "z"}

Alnum == UpperLetters \cup LowerLetters \cup {Digits[d] : d \in 1..10}

\* the characters that \w matches: letters, digits and the underscore
WordChars == Alnum \cup {"_"}

\* re.sub(r'\W+', '', asin)
RECURSIVE SubNonWord(_)
SubNonWord(asin) ==
    IF asin = <<>> THEN <<>>
    ELSE (IF Head(asin) \in WordChars THEN <<Head(asin)>> ELSE <<>>)
         \o SubNonWord(Tail(asin))

RECURSIVE JsonEscape(_)
JsonEscape(s) ==
    IF s = <<>> THEN <<>>
    ELSE (IF Head(s) \in {"\"", "\\"} THEN <<"\\", Head(s)>> ELSE <<Head(s)>>)
         \o JsonEscape(Tail(s))

\* json.dumps of a str: the text between double quotes
JsonDumps(s) == <<"\"">> \o JsonEscape(s) \o <<"\"">>

\* the pieces of s between occurrences of the separator sep
RECURSIVE SplitOn(_, _)
SplitOn(s, sep) ==
    IF \A i \in 1..Len(s) : ~IsPrefix(sep, SubSeq(s, i, Len(s))) THEN <<s>>
    ELSE LET i == SetMin({j \in 1..Len(s) : IsPrefix(sep, SubSeq(s, j, Len(s)))})
         IN  <<SubSeq(s, 1, i - 1)>>
             \o SplitOn(SubSeq(s, i + Len(sep), Len(s)), sep)

\* ast.literal_eval("['" + json.dumps(image).strip('\\\'"') + "']") for an
\* image column that holds URLs separated by "', '": the list of the URLs
ImageColumnList(image) ==
    LET inner == Strip(JsonDumps(image), {"\\", "'", "\""})
        parts == SplitOn(inner, <<"'", ",", " ", "'">>)
    IN  [i \in 1..Len(parts) |-> parts[i][1]]

\* the rows that SELECT ... WHERE asin='{asin}' returns
RECURSIVE SelectRows(_, _)
SelectRows(rows, asin) ==
    IF rows = <<>> THEN <<>>
    ELSE (IF Head(rows).asin = asin THEN <<Head(rows)>> ELSE <<>>)
         \o SelectRows(Tail(rows), asin)

DbOutcome(kind, val, exc, queries) ==
    [kind |-> kind, val |-> val, exc |-> exc, fetches |-> <<>>,
     requests |-> <<>>, queries |-> queries]

\* db: the catalog as the RDS Data API answers, [status, rows]
get_info_from_db(asin, db) ==
    LET clean   == SubNonWord(asin)
        records == SelectRows(db.rows, clean)
        info    == records[1]
    IN  IF db.status # "ok"
        THEN DbOutcome("raise", None, "ClientError", <<clean>>)
        ELSE IF Len(records) = 0
             THEN DbOutcome("raise", None, "IndexError", <<clean>>)
             ELSE DbOutcome("return",
                            [t |-> "dict", asin |-> JsonDumps(info.asin),
                             title |-> JsonDumps(info.title),
                             image |-> PyList(ImageColumnList(info.image))],
                            "", <<clean>>)

(***************************************************************************)
(* The turn cells of the notebook.                                         *)
(***************************************************************************)
\* x[0]
Subscript0(x) ==
    IF x.t # "list" THEN Raised("TypeError", <<>>, <<>>)
    ELSE IF x.v = <<>> THEN Raised("IndexError", <<>>, <<>>)
    ELSE Returned(x.v[1], <<>>, <<>>)

\* search_asin = get_asin_list(bedrock_kb_retrieve(...))[0]
first_turn_select(kb) ==
    LET retrieved == bedrock_kb_retrieve(kb)
        asin_list == get_asin_list(retrieved.val)
    IN  IF retrieved.kind = "raise" THEN retrieved
        ELSE IF asin_list.kind = "raise" THEN asin_list
        ELSE Subscript0(asin_list.val)

\* the first identifier of all when none differs from search_asin
SelectUnseen_OrSeen(asin_list, search_asin) ==
    IF asin_list.t # "list" THEN Raised("TypeError", <<>>, <<>>)
    ELSE LET rest == SelectSeq(asin_list.v, LAMBDA x : x # search_asin)
         IN  Subscript0(PyList(IF rest = <<>> THEN asin_list.v ELSE rest))

SelectUnseen_First(asin_list, search_asin) == Subscript0(asin_list)

\* asin = list(filter(lambda x :x!=search_asin, asin_list))[0]
SelectUnseen(asin_list, search_asin) ==
    IF asin_list.t # "list" THEN Raised("TypeError", <<>>, <<>>)
    ELSE Subscript0(PyList(SelectSeq(asin_list.v, LAMBDA x : x # search_asin)))

TurnOutcome(kind, val, exc, stage, fetches, requests, lookups) ==
    [kind |-> kind, val |-> val, exc |-> exc, stage |-> stage,
     fetches |-> fetches, requests |-> requests, lookups |-> lookups]

\* the follow-up turn: refine_query with the history and the product of
\* the turn before, retrieval, choice of the next identifier, catalog
\* lookup and pick_img; an exception of any call ends the turn
follow_up_turn(input_text, query_history, search_product, w) ==
    LET refined   == refine_query(input_text, query_history, search_product,
                                  [store |-> w.store, llm |-> w.llm])
        retrieved == bedrock_kb_retrieve(w.kb)
        asin_list == get_asin_list(retrieved.val)
        asin      == SelectUnseen(asin_list.val, search_product.asin)
        info      == get_info_from_db(asin.val, w.db)
        picked    == pick_img(info.val.title, info.val.image,
                              [store1 |-> w.store1, store2 |-> w.store2,
                               llm |-> w.llm2])
    IN  IF refined.kind = "raise"
        THEN TurnOutcome("raise", None, refined.exc, "refine_query",
                         refined.fetches, refined.requests, <<>>)
        ELSE IF retrieved.kind = "raise"
        THEN TurnOutcome("raise", None, retrieved.exc, "bedrock_kb_retrieve",
                         refined.fetches, refined.requests, <<>>)
        ELSE IF asin_list.kind = "raise"
        THEN TurnOutcome("raise", None, asin_list.exc, "get_asin_list",
                         refined.fetches, refined.requests, <<>>)
        ELSE IF asin.kind = "raise"
        THEN TurnOutcome("raise", None, asin.exc, "select",
                         refined.fetches, refined.requests, <<>>)
        ELSE IF info.kind = "raise"
        THEN TurnOutcome("raise", None, info.exc, "get_info_from_db",
                         refined.fetches, refined.requests, <<asin.val>>)
        ELSE IF picked.kind = "raise"
        THEN TurnOutcome("raise", None, picked.exc, "pick_img",
                         refined.fetches \o picked.fetches,
                         refined.requests \o picked.requests, <<asin.val>>)
        ELSE TurnOutcome("return",
                         [t |-> "dict", asin |-> info.val.asin,
                          title |-> info.val.title, image |-> picked.val,
                          query |-> refined.val[1],
                          query_history |-> refined.val[2]],
                         "", "done",
                         refined.fetches \o picked.fetches,
                         refined.requests \o picked.requests, <<asin.val>>)

(***************************************************************************)
(* Inputs of the calls.                                                    *)
(***************************************************************************)
Range(s) == {s[i] : i \in 1..Len(s)}

TextChars == {"<", ">", "a", " ", "\n"}

\* texts the language model may answer refine_query with
RefineTexts == SeqsUpTo(TextChars, MaxText)

UserTexts == {<<"s", "h", "i", "r", "t", "s">>}

PastQueries == {<<"q", "1">>, <<"q", "2">>}

Histories == {None} \cup {PyList(h) : h \in SeqsUpTo(PastQueries, MaxHist)}

Product(asin, title, image) ==
    [t |-> "dict", asin |-> asin, title |-> title, image |-> image]

Products ==
    {None} \cup {Product(<<"B", "1">>, <<"t">>, i) : i \in {None, Url("A")}}

\* fetch outcomes; a URL that the call never fetches has outcome "image"
StoresFor(used) ==
    {s \in [URLs -> Outcomes] : \A u \in URLs \ used : s[u] = "image"}

ListUrls(img_list) == IF img_list.t = "list" THEN Range(img_list.v) ELSE {}

\* fetch outcomes at encoding time: any outcome for a URL that passed the
\* filter, the outcome of filtering time for a URL that is not fetched again
LaterStores(store1, img_list) ==
    {s \in [URLs -> Outcomes] :
        \A u \in URLs :
            (u \notin ListUrls(img_list) \/ store1[u] # "image") => s[u] = store1[u]}

Bracketed(s) == <<"[">> \o s \o <<"]">>

IntText(k) ==
    IF k < 0 THEN <<"-", Digits[1 - k]>> ELSE <<Digits[k + 1]>>

\* texts the language model may answer pick_img with: every index from
\* below the list to above it, and texts that are no index
PickTexts ==
    {Bracketed(IntText(k)) : k \in (0 - (MaxImgs + 2))..(MaxImgs + 2)}
    \cup {<<"2">>, <<"[", "[", "2", "]", "]">>, <<"[", "0", "2", "]">>,
          <<"[", "1", "0", "]">>,
          <<>>, <<"[", "]">>, <<"t", "w", "o">>, <<"[", "a", "]">>,
          <<"[", "2", ".", "5", "]">>, <<"[", "1", ",", "2", "]">>,
          <<"[", "T", "r", "u", "e", "]">>, <<"N", "o", "n", "e">>}

LlmAnswers(texts) ==
    {[status |-> "ok", text |-> x] : x \in texts}
    \cup {[status |-> st, text |-> <<>>] : st \in {"transport", "envelope"}}

ImgLists == {None} \cup {PyList(l) : l \in SeqsUpTo(URLs, MaxImgs)}

Survivors(img_list, store) ==
    SelectSeq(img_list.v, LAMBDA u : store[u] = "image")

Hit(uri) == [t |-> "dict", uri |-> uri, v |-> <<uri>>]

Uris ==
    { <<"s", "3", ":", "/", "/", "b", "/", "A", "1", ".", "t", "x", "t">>,
      <<"s", "3", ":", "/", "/", "b", "/", "d", "/", "B", "2", ".", "t", "x", "t">>,
      <<"s", "3", ":", "/", "/", "b", "/", "C", "3", ".", "v", "2", ".", "t", "x", "t">> }

SearchLists ==
    {None} \cup {Hit(u) : u \in Uris} \cup {PyStr(u) : u \in Uris}
    \cup {PyList(l) : l \in SeqsUpTo({Hit(u) : u \in Uris}, MaxHits)}

\* what client.retrieve answers: up to MaxHits hits in relevance order
KbAnswers ==
    {[status |-> "ok", results |-> l] : l \in SeqsUpTo({Hit(u) : u \in Uris}, MaxHits)}
    \cup {[status |-> "transport", results |-> <<>>]}

AsinChars == {"A", "1", "_", "'", " "}

\* identifiers handed to get_info_from_db
AsinInputs == SeqsUpTo(AsinChars, MaxAsin)

Row(asin, title, image) == [asin |-> asin, title |-> title, image |-> image]

\* catalog rows: the image column holds str(list of URLs) stripped of its
\* brackets and outer quotes (01-preparing-dataset.ipynb)
CatalogRows ==
    { Row(<<"A", "1">>, <<"t", "1">>, <<"A", "'", ",", " ", "'", "B">>),
      Row(<<"B", "2">>, <<"t", "2">>, <<"C">>) }

RECURSIVE SetToSeq(_)
SetToSeq(S) ==
    IF S = {} THEN <<>>
    ELSE LET x == CHOOSE y \in S : TRUE IN <<x>> \o SetToSeq(S \ {x})

Catalogs ==
    {[status |-> "ok", rows |-> SetToSeq(R)] : R \in SUBSET CatalogRows}
    \cup {[status |-> "transport", rows |-> <<>>]}

\* inputs of a follow-up turn: the history and the product that the
\* first turn left, the product image fetchable or not
TurnHistories == {PyList(<<q>>) : q \in PastQueries}

TurnProducts ==
    {Product(a, <<"t">>, i) : a \in {<<"A", "1">>, <<"C", "3">>},
                              i \in {None, Url("A")}}

TurnRefineAnswers ==
    {[status |-> "ok", text |-> <<"a">>], [status |-> "transport", text |-> <<>>]}

TurnPickAnswers ==
    {[status |-> "ok", text |-> x] :
        x \in {<<"[", "1", "]">>, <<"[", "2", "]">>, <<"t", "w", "o">>}}

TurnStores == {s \in [URLs -> Outcomes] : s["C"] = "image"}

(***************************************************************************)
(* Conversations.  Each holds its own history and product, as the caller   *)
(* of refine_query does; the level of the root logger, which refine_query  *)
(* sets from its log_level argument, is the one state every call shares.   *)
(***************************************************************************)
Convs == {"c1", "c2"}

LogLevels == {"ERROR", "INFO"}

\* log_level='ERROR'
DefaultLogLevel == "ERROR"

\* logging.getLogger().setLevel(level) runs after the product image is
\* fetched and before the model is invoked
LevelAfter(outcome, log_level) ==
    IF outcome.kind = "raise" /\ outcome.requests = <<>>
    THEN root_level ELSE log_level

\* query, query_history = refine_query(search_query): no history, no product
NewConversation ==
    [query_history |-> None, product |-> None, last |-> <<>>, log |-> <<>>]

AllFetchable == [u \in URLs |-> "image"]

\* what one turn of a conversation meets: the model's answer and the
\* product shown at the end of the turn
TurnEvents ==
    {[llm |-> l, shown |-> p] :
        l \in {[status |-> "ok", text |-> <<"a">>],
               [status |-> "ok", text |-> <<" ", "<", ">", "b">>],
               [status |-> "transport", text |-> <<>>]},
        p \in {None, Product(<<"A", "1">>, <<"t">>, Url("A"))}}

ConvHistory_Global(c, cs) == cs[CHOOSE d \in Convs : TRUE].query_history

\* the history that conversation c hands to refine_query: its own
ConvHistory(c, cs) == cs[c].query_history

\* one turn on the values [query_history, product, last] of a
\* conversation: refine_query, then the caller keeps the returned history
\* and the product shown; a raise leaves the values as they were
ConvStep(query_history, product, e) ==
    LET r == refine_query(CHOOSE x \in UserTexts : TRUE, query_history, product,
                          [store |-> AllFetchable, llm |-> e.llm])
    IN  IF r.kind = "return"
        THEN [query_history |-> PyList(r.val[2]), product |-> e.shown,
              last |-> <<r.val[1]>>, outcome |-> r]
        ELSE [query_history |-> query_history, product |-> product,
              last |-> <<>>, outcome |-> r]

\* what one call of a chain meets: four answers that clean to four
\* different queries, or a failure of the model service
ChainEvents ==
    {[llm |-> l, shown |-> p] :
        l \in {[status |-> "ok", text |-> <<"a">>],
               [status |-> "ok", text |-> <<" ", "<", ">", "b">>],
               [status |-> "ok", text |-> <<"c", "\n">>],
               [status |-> "ok", text |-> <<"d">>],
               [status |-> "transport", text |-> <<>>]},
        p \in {None, Product(<<"A", "1">>, <<"t">>, Url("A"))}}

(***************************************************************************)
(* The state machine: from idle, one of the functions is called with       *)
(* inputs and environment outcomes of the sets above; the call runs to     *)
(* its return or raise; Return goes back to idle.                          *)
(***************************************************************************)
Init ==
    /\ phase = "idle"
    /\ op = "none"
    /\ args = <<>>
    /\ world = <<>>
    /\ ret = <<>>
    /\ convs = [c \in Convs |-> NewConversation]
    /\ root_level = "WARNING"
    /\ heap = <<>>

CallRefineQuery ==
    /\ phase = "idle"
    /\ \E input_text \in UserTexts, query_history \in Histories,
          product \in Products, llm \in LlmAnswers(RefineTexts) :
         \E store \in StoresFor(IF product.t = "dict" /\ product.image.t = "str"
                                THEN {product.image.v[1]} ELSE {}) :
            /\ args' = [input_text |-> input_text,
                        query_history |-> query_history, product |-> product]
            /\ world' = [store |-> store, llm |-> llm]
            /\ ret' = refine_query(input_text, query_history, product, world')
            /\ heap' = ArgsAfter(query_history, product, ret')
    /\ op' = "refine_query"
    /\ phase' = "done"
    /\ root_level' = LevelAfter(ret', DefaultLogLevel)
    /\ UNCHANGED convs

CallPickImg ==
    /\ phase = "idle"
    /\ \E text_input \in UserTexts, img_list \in ImgLists,
          llm \in LlmAnswers(PickTexts) :
         \E store1 \in StoresFor(ListUrls(img_list)) :
           \E store2 \in LaterStores(store1, img_list) :
            /\ args' = [text_input |-> text_input, img_list |-> img_list]
            /\ world' = [store1 |-> store1, store2 |-> store2, llm |-> llm]
            /\ ret' = pick_img(text_input, img_list, world')
    /\ op' = "pick_img"
    /\ phase' = "done"
    /\ UNCHANGED <<convs, root_level, heap>>

CallFilterImageUrl ==
    /\ phase = "idle"
    /\ \E img_list \in ImgLists :
         \E store \in StoresFor(ListUrls(img_list)) :
            /\ args' = [img_list |-> img_list]
            /\ world' = [store |-> store]
            /\ ret' = filter_image_url(img_list, store)
    /\ op' = "filter_image_url"
    /\ phase' = "done"
    /\ UNCHANGED <<convs, root_level, heap>>

\* the value filter_image_url returned is filtered again, the fetch
\* outcomes being what they were
CallFilterImageUrlAgain ==
    /\ phase = "done"
    /\ op = "filter_image_url"
    /\ ret.kind = "return"
    /\ args' = [img_list |-> ret.val]
    /\ ret' = filter_image_url(ret.val, world.store)
    /\ op' = "filter_image_url_again"
    /\ UNCHANGED <<phase, world, convs, root_level, heap>>

CallGetAsinList ==
    /\ phase = "idle"
    /\ \E search_list \in SearchLists :
         /\ args' = [search_list |-> search_list]
         /\ ret' = get_asin_list(search_list)
    /\ world' = <<>>
    /\ op' = "get_asin_list"
    /\ phase' = "done"
    /\ UNCHANGED <<convs, root_level, heap>>

CallBedrockKbRetrieve ==
    /\ phase = "idle"
    /\ \E kb \in KbAnswers :
         /\ world' = [kb |-> kb]
         /\ ret' = bedrock_kb_retrieve(kb)
    /\ args' = <<>>
    /\ op' = "bedrock_kb_retrieve"
    /\ phase' = "done"
    /\ UNCHANGED <<convs, root_level, heap>>

CallGetInfoFromDb ==
    /\ phase = "idle"
    /\ \E asin \in AsinInputs, db \in Catalogs :
         /\ args' = [asin |-> asin]
         /\ world' = [db |-> db]
         /\ ret' = get_info_from_db(asin, db)
    /\ op' = "get_info_from_db"
    /\ phase' = "done"
    /\ UNCHANGED <<convs, root_level, heap>>

CallFirstTurnSelect ==
    /\ phase = "idle"
    /\ \E kb \in KbAnswers :
         /\ world' = [kb |-> kb]
         /\ ret' = first_turn_select(kb)
    /\ args' = <<>>
    /\ op' = "first_turn_select"
    /\ phase' = "done"
    /\ UNCHANGED <<convs, root_level, heap>>

FollowUpTurn ==
    /\ phase = "idle"
    /\ \E input_text \in UserTexts, query_history \in TurnHistories,
          search_product \in TurnProducts, llm \in TurnRefineAnswers,
          kb \in KbAnswers, db \in Catalogs, store \in TurnStores,
          llm2 \in TurnPickAnswers :
         /\ args' = [input_text |-> input_text,
                     query_history |-> query_history,
                     search_product |-> search_product]
         /\ world' = [store |-> store, store1 |-> store, store2 |-> store,
                      llm |-> llm, kb |-> kb, db |-> db, llm2 |-> llm2]
         /\ ret' = follow_up_turn(input_text, query_history, search_product,
                                  world')
         /\ heap' = ArgsAfter(query_history, search_product,
                              refine_query(input_text, query_history,
                                           search_product, world'))
    /\ op' = "follow_up_turn"
    /\ phase' = "done"
    /\ root_level' = LevelAfter(ret', DefaultLogLevel)
    /\ UNCHANGED convs

Return ==
    /\ phase = "done"
    /\ phase' = "idle"
    /\ op' = "none"
    /\ args' = <<>>
    /\ world' = <<>>
    /\ ret' = <<>>
    /\ heap' = <<>>
    /\ UNCHANGED <<convs, root_level>>

\* a turn of conversation c, interleaved at will with the other's turns
ConvTurn(c) ==
    /\ Len(convs[c].log) < MaxTurns
    /\ \E e \in TurnEvents, log_level \in LogLevels :
         LET step == ConvStep(ConvHistory(c, convs), convs[c].product, e)
         IN  /\ convs' = [convs EXCEPT ![c] =
                            [query_history |-> step.query_history,
                             product |-> step.product,
                             last |-> step.last,
                             log |-> Append(convs[c].log, e)]]
             /\ root_level' = LevelAfter(step.outcome, log_level)
    /\ UNCHANGED <<phase, op, args, world, ret, heap>>

NextConv == \E c \in Convs : ConvTurn(c)

SpecConv == Init /\ [][NextConv]_vars

\* one conversation: the first call is refine_query(search_query), every
\* later call gets the history the call before returned and the product
\* shown since; log keeps what each call returned (<<>> for a raise)
ChainCall ==
    /\ Len(convs["c1"].log) < MaxCalls
    /\ \E e \in ChainEvents :
         LET step == ConvStep(ConvHistory("c1", convs), convs["c1"].product, e)
         IN  /\ convs' = [convs EXCEPT !["c1"] =
                            [query_history |-> step.query_history,
                             product |-> step.product,
                             last |-> step.last,
                             log |-> Append(convs["c1"].log, step.last)]]
             /\ root_level' = LevelAfter(step.outcome, DefaultLogLevel)
    /\ UNCHANGED <<phase, op, args, world, ret, heap>>

NextChain == ChainCall

SpecChain == Init /\ [][NextChain]_vars

Next ==
    \/ CallRefineQuery
    \/ CallPickImg
    \/ CallFilterImageUrl
    \/ CallFilterImageUrlAgain
    \/ CallGetAsinList
    \/ CallBedrockKbRetrieve
    \/ CallGetInfoFromDb
    \/ CallFirstTurnSelect
    \/ FollowUpTurn
    \/ Return

Spec == Init /\ [][Next]_vars

(***************************************************************************)
(* Properties.                                                             *)
(***************************************************************************)
RefineReturned == op = "refine_query" /\ ret.kind = "return"

\* the history handed to refine_query, absent read as empty
GivenHistory ==
    IF args.query_history.t = "list" THEN args.query_history.v ELSE <<>>

\* C1: whatever the history and the model's text, the updated history
\* that refine_query returns has at most 3 entries and its first entry is
\* the cleaned refined query returned as the first result.
C1_HistoryBounded ==
    RefineReturned =>
        /\ Len(ret.val[2]) <= 3
        /\ ret.val[2][1] = ret.val[1]

C1_Witness ==
    /\ RefineReturned
    /\ Len(GivenHistory) >= 3
    /\ Len(ret.val[2]) = 3
    /\ ret.val[1] # world.llm.text

\* C8: the updated history is the first 3 entries of the cleaned query
\* followed by the given history in its order; its length is
\* min(|h| + 1, 3).
C8_HistoryPrepend ==
    RefineReturned =>
        /\ ret.val[2] = Take(<<ret.val[1]>> \o GivenHistory, 3)
        /\ Len(ret.val[2]) = Min(Len(GivenHistory) + 1, 3)

C8_Witness ==
    /\ RefineReturned
    /\ Len(GivenHistory) >= 3
    /\ GivenHistory[1] # GivenHistory[2]
    /\ ret.val[2] = <<ret.val[1], GivenHistory[1], GivenHistory[2]>>

PickCalled == op = "pick_img" /\ args.img_list.t = "list"

\* the URLs of a pick_img call that the filter's fetches found decodable
PickSurvivors == Survivors(args.img_list, world.store1)

\* the call got as far as reading the model's answer
PickAnswered ==
    /\ PickCalled
    /\ ret.requests # <<>>
    /\ world.llm.status = "ok"

PickAnswer == ParseAnswer(world.llm.text)

\* C2: an answer that parses to an integer k with 1 <= k <= n, n the
\* number of surviving URLs, makes pick_img return the k-th survivor.
C2_ValidIndexPicked ==
    (/\ PickAnswered
     /\ PickAnswer.t = "int"
     /\ PickAnswer.v[1] >= 1
     /\ PickAnswer.v[1] <= Len(PickSurvivors))
    => /\ ret.kind = "return"
       /\ ret.val = Url(PickSurvivors[PickAnswer.v[1]])

\* C3: an answer that parses to an integer outside 1..n makes pick_img
\* return None and raise nothing.
C3_InvalidIndexAbsent ==
    (/\ PickAnswered
     /\ PickAnswer.t = "int"
     /\ (PickAnswer.v[1] < 1 \/ PickAnswer.v[1] > Len(PickSurvivors)))
    => /\ ret.kind = "return"
       /\ ret.val = None

\* C4: an answer that does not parse to an integer after bracket
\* stripping makes pick_img return None and raise nothing.
C4_MalformedAbsent ==
    (PickAnswered /\ PickAnswer.t # "int")
    => /\ ret.kind = "return"
       /\ ret.val = None

\* C5: a URL returned by pick_img is one of the candidates that the
\* filter's fetch found decodable, never one that the filter excluded.
C5_PickedSurvived ==
    (PickCalled /\ ret.kind = "return" /\ ret.val # None)
    => \E i \in 1..Len(args.img_list.v) :
          /\ ret.val = Url(args.img_list.v[i])
          /\ world.store1[args.img_list.v[i]] = "image"

C5_Witness ==
    /\ PickCalled
    /\ ret.kind = "return"
    /\ ret.val # None
    /\ Len(args.img_list.v) = 3
    /\ world.store1[args.img_list.v[1]] = "image"
    /\ world.store1[args.img_list.v[2]] # "image"
    /\ world.store1[args.img_list.v[3]] = "image"

\* the identifiers get_asin_list is to return for its input
ExpectedAsins ==
    IF args.search_list.t = "None" THEN <<>>
    ELSE IF args.search_list.t = "dict" THEN <<AsinOf(args.search_list.uri)>>
    ELSE IF args.search_list.t = "str" THEN <<AsinOf(args.search_list.v)>>
    ELSE [i \in 1..Len(args.search_list.v) |-> AsinOf(args.search_list.v[i].uri)]

\* C6: get_asin_list returns, without raising, the empty sequence for an
\* absent input, the one identifier of a single result, and the L
\* identifiers of a list of L results in order.
C6_AsinListTotal ==
    op = "get_asin_list" =>
        /\ ret.kind = "return"
        /\ ret.val = PyList(ExpectedAsins)

\* C7: filtering the value that filter_image_url returned, fetch outcomes
\* unchanged, returns that same value and raises nothing.
C7_FilterIdempotent ==
    op = "filter_image_url_again" =>
        /\ ret.kind = "return"
        /\ ret.val = args.img_list

FilterCalled == op = "filter_image_url" /\ args.img_list.t = "list"

\* C9: filter_image_url returns the URLs whose fetch-and-decode succeeds,
\* in their order (the absent value when there is none), whatever fails
\* and wherever, and has fetched every URL of its input exactly once.
C9_FilterSubsequence ==
    FilterCalled =>
        LET kept == Survivors(args.img_list, world.store)
        IN  /\ ret.kind = "return"
            /\ ret.val = IF kept = <<>> THEN None ELSE PyList(kept)
            /\ ret.fetches = args.img_list.v

C9_Witness ==
    /\ FilterCalled
    /\ Len(args.img_list.v) = 3
    /\ world.store[args.img_list.v[1]] = "down"
    /\ world.store[args.img_list.v[2]] = "image"
    /\ world.store[args.img_list.v[3]] = "notfound"
    /\ ret.val = PyList(<<args.img_list.v[2]>>)

\* C10: when no candidate survives the filter, pick_img returns None
\* having fetched nothing beyond the filter's own fetches and having
\* issued no language-model request.
C10_NoSurvivorNoCall ==
    (PickCalled /\ PickSurvivors = <<>>)
    => /\ ret.kind = "return"
       /\ ret.val = None
       /\ ret.requests = <<>>
       /\ ret.fetches = args.img_list.v

C10_Witness ==
    /\ PickCalled
    /\ Len(args.img_list.v) >= 2
    /\ PickSurvivors = <<>>
    /\ ret.val = None
    /\ ret.requests = <<>>

RefineCalled == op = "refine_query"

\* C13: when the language-model call of refine_query fails, by a
\* transport error or a malformed envelope, refine_query raises: it
\* returns no refined query and no history, the raw user text included.
C13_ModelFailureRaises ==
    (RefineCalled /\ ret.requests # <<>> /\ world.llm.status # "ok")
    => /\ ret.kind = "raise"
       /\ ret.val = None

C13_Witness ==
    /\ RefineCalled
    /\ ret.requests # <<>>
    /\ world.llm.status = "envelope"
    /\ Truthy(args.query_history)
    /\ ret.kind = "raise"

\* the product handed to refine_query has an image whose fetch does not
\* deliver the image
ProductImageUnfetchable ==
    /\ RefineCalled
    /\ args.product.t = "dict"
    /\ (args.product.image.t = "str"
        => world.store[args.product.image.v[1]] # "image")

\* C15: refine_query with a product whose image cannot be fetched raises,
\* and issues no language-model request.
C15_ProductImageFetchError ==
    ProductImageUnfetchable
    => /\ ret.kind = "raise"
       /\ ret.requests = <<>>

\* C16: in pick_img, a URL that passed the filter and whose fetch by the
\* encoder does not succeed (a not-found answer included) makes pick_img
\* raise, with no request built.
C16_EncodeFailureRaises ==
    (/\ PickCalled
     /\ \E i \in 1..Len(PickSurvivors) :
            world.store2[PickSurvivors[i]] # "image")
    => /\ ret.kind = "raise"
       /\ ret.requests = <<>>

\* the last path component of a URI without its last extension
Stem(uri) ==
    LET base == Last(Split(uri, "/"))
        dots == {i \in 1..Len(base) : base[i] = "."}
    IN  IF dots = {} THEN base
        ELSE SubSeq(base, 1, (CHOOSE m \in dots : \A n \in dots : m >= n) - 1)

\* C18: every identifier that get_asin_list extracts is the filename
\* stem of the result's source location: the last path component with
\* only its last extension removed.
C18_IdentifierIsStem ==
    (op = "get_asin_list" /\ args.search_list.t = "list" /\ ret.kind = "return")
    => /\ Len(ret.val.v) = Len(args.search_list.v)
       /\ \A i \in 1..Len(ret.val.v) :
             ret.val.v[i] = Stem(args.search_list.v[i].uri)

\* C19: the identifier that get_info_from_db places in the catalog query
\* holds alphanumeric characters only.
C19_QueryIdAlphanumeric ==
    op = "get_info_from_db" =>
        \A q \in 1..Len(ret.queries) :
            \A i \in 1..Len(ret.queries[q]) : ret.queries[q][i] \in Alnum

\* C20: a lookup of an identifier that has no row in the catalog returns
\* a value and does not raise.
C20_NotFoundIsValue ==
    (/\ op = "get_info_from_db"
     /\ world.db.status = "ok"
     /\ \A r \in 1..Len(world.db.rows) :
            world.db.rows[r].asin # ret.queries[1])
    => ret.kind = "return"

FollowUpCalled == op = "follow_up_turn"

\* the identifiers of the hits the knowledge base returned, in its order
RetrievedIds ==
    [i \in 1..Len(world.kb.results) |-> AsinOf(world.kb.results[i].uri)]

\* C11: the identifier a follow-up turn looks up in the catalog is not
\* the identifier of the currently selected product, and it is the first,
\* in the knowledge base's order, of the retrieved identifiers that differ
\* from it.
C11_FirstUnseenChosen ==
    (FollowUpCalled /\ ret.lookups # <<>>)
    => LET current == args.search_product.asin
           chosen  == ret.lookups[1]
       IN  /\ chosen # current
           /\ \E i \in 1..Len(RetrievedIds) :
                 /\ RetrievedIds[i] = chosen
                 /\ \A j \in 1..(i - 1) : RetrievedIds[j] = current

C11_Witness ==
    /\ FollowUpCalled
    /\ ret.lookups # <<>>
    /\ Len(RetrievedIds) >= 2
    /\ RetrievedIds[1] = args.search_product.asin
    /\ ret.lookups[1] = RetrievedIds[2]
    /\ ret.kind = "return"

\* C12: when the knowledge base returns zero results, retrieval,
\* extraction and selection of the identifier end in an absent or empty
\* value and raise nothing, in the first turn and in a follow-up turn.
C12_ZeroResultsAbsent ==
    (/\ op \in {"first_turn_select", "follow_up_turn"}
     /\ world.kb.status = "ok"
     /\ world.kb.results = <<>>
     /\ (FollowUpCalled => ret.stage # "refine_query"))
    => /\ ret.kind = "return"
       /\ ret.val \in {None, PyList(<<>>)}

\* C14: a turn in which the refined query cannot be produced or no image
\* can be selected still completes: no error ends the turn.
C14_TurnCompletes ==
    FollowUpCalled => ret.kind = "return"

\* the values a conversation holds after the turns of log, run alone
RECURSIVE Alone(_)
Alone(log) ==
    IF log = <<>>
    THEN [query_history |-> None, product |-> None, last |-> <<>>]
    ELSE LET before == Alone(SubSeq(log, 1, Len(log) - 1))
             step   == ConvStep(before.query_history, before.product,
                                log[Len(log)])
         IN  [query_history |-> step.query_history,
              product |-> step.product, last |-> step.last]

RECURSIVE ReturnedQueries(_)
ReturnedQueries(log) ==
    IF log = <<>> THEN <<>>
    ELSE Head(log) \o ReturnedQueries(Tail(log))

Reverse(s) == [i \in 1..Len(s) |-> s[Len(s) + 1 - i]]

\* C21: after n >= 1 successful refine_query calls, each given the history
\* the call before returned (the first given none), the history is exactly
\* the min(n, 3) most recent refined queries, newest first
C21_HistoryIsRecent ==
    LET qs == ReturnedQueries(convs["c1"].log)
        n  == Len(qs)
    IN  n >= 1 =>
          convs["c1"].query_history =
              PyList(SubSeq(Reverse(qs), 1, IF n < 3 THEN n ELSE 3))

\* four successful calls with four different queries: the first query has
\* left the history
C21_Witness ==
    LET qs == ReturnedQueries(convs["c1"].log)
    IN  /\ Len(qs) = 4
        /\ Cardinality(Range(qs)) = 4
        /\ convs["c1"].query_history.t = "list"
        /\ qs[1] \notin Range(convs["c1"].query_history.v)
        /\ convs["c1"].query_history.v = <<qs[4], qs[3], qs[2]>>

RefineRequested == RefineCalled /\ ret.requests # <<>>

GivenEntries ==
    IF Truthy(args.query_history) THEN args.query_history.v ELSE <<>>

IsPastBlock(b) == b.type = "text" /\ b.label = "PAST USER QUERY: "

\* C23: the request of refine_query holds exactly min(h, 4) past-query
\* text blocks for a history of length h, the first min(h, 4) entries in
\* the order given; no fifth or later entry is sent
C23_FirstFourPastQueries ==
    RefineRequested =>
        LET h == GivenEntries
            k == IF Len(h) < 4 THEN Len(h) ELSE 4
        IN  SelectSeq(ret.requests[1].content, IsPastBlock)
              = [i \in 1..k |-> TextBlock("PAST USER QUERY: ", h[i])]

\* a request was built from a history of five entries
C23_Witness ==
    /\ RefineRequested
    /\ Len(GivenEntries) = 5
    /\ Len(SelectSeq(ret.requests[1].content, IsPastBlock)) = 4

\* C24: in the request of refine_query the first block is the current
\* user query, the past-query blocks follow, and with a product the
\* request ends with the title text block followed at once by the image
\* block of that product; with no product there is no image block
C24_RequestOrder ==
    RefineRequested =>
        LET c == ret.requests[1].content
            k == Cardinality({i \in 1..Len(c) : IsPastBlock(c[i])})
        IN  /\ c[1] = TextBlock("CURRENT USER QUERY: ", args.input_text)
            /\ \A i \in 2..(k + 1) : IsPastBlock(c[i])
            /\ IF args.product.t = "dict"
               THEN /\ Len(c) = k + 3
                    /\ c[k + 2] = TextBlock("IMAGE title: ", args.product.title)
                    /\ c[k + 3].type = "image"
                    /\ Last(c[k + 3].data) = args.product.image.v[1]
                    /\ \A i \in 1..(k + 2) : c[i].type = "text"
               ELSE /\ Len(c) = k + 1
                    /\ \A i \in 1..Len(c) : c[i].type = "text"

\* a request with past queries and a product
C24_Witness ==
    /\ RefineRequested
    /\ Len(GivenEntries) >= 2
    /\ args.product.t = "dict"
    /\ Len(ret.requests[1].content) >= 5

PickRequested == PickCalled /\ ret.requests # <<>>

\* C25: the request of pick_img is one leading text block with the
\* reference text followed by exactly one image block per surviving URL,
\* the i-th block built from the i-th surviving URL; a URL returned for an
\* answer k >= 1 is the URL of the k-th image block
C25_OneBlockPerSurvivor ==
    PickRequested =>
        LET c  == ret.requests[1].content
            sv == PickSurvivors
        IN  /\ Len(c) = 1 + Len(sv)
            /\ c[1] = TextBlock("", args.text_input)
            /\ \A i \in 1..Len(sv) :
                  /\ c[i + 1].type = "image"
                  /\ Last(c[i + 1].data) = sv[i]
            /\ (/\ ret.kind = "return"
                /\ ret.val # None
                /\ PickAnswer.t = "int"
                /\ PickAnswer.v[1] >= 1)
               => ret.val = Url(Last(c[PickAnswer.v[1] + 1].data))

\* three URLs survived and the second was picked for the answer [2]
C25_Witness ==
    /\ PickRequested
    /\ Len(args.img_list.v) = 3
    /\ Len(PickSurvivors) = 3
    /\ PickSurvivors[1] # PickSurvivors[2]
    /\ ret.kind = "return"
    /\ PickAnswer = PyInt(2)
    /\ ret.val = Url(PickSurvivors[2])

\* C26: a pick_img call with c candidate URLs of which s >= 1 survive
\* makes exactly c image fetches, filtering and encoding together, and
\* exactly one language-model call
C26_OneFetchPerCandidate ==
    (/\ PickCalled
     /\ Len(PickSurvivors) >= 1
     /\ ret.kind = "return")
    => /\ Len(ret.fetches) = Len(args.img_list.v)
       /\ Len(ret.requests) = 1

\* C27: when the knowledge base returns exactly one hit,
\* bedrock_kb_retrieve followed by get_asin_list gives the one-element
\* list of that hit's identifier and nothing is raised
C27_SingleHitListed ==
    (/\ op = "bedrock_kb_retrieve"
     /\ world.kb.status = "ok"
     /\ Len(world.kb.results) = 1)
    => /\ ret.kind = "return"
       /\ get_asin_list(ret.val)
            = Returned(PyList(<<AsinOf(world.kb.results[1].uri)>>), <<>>, <<>>)

\* C28: refine_query given a product whose selected image is absent
\* raises while building the request, before any language-model call; the
\* follow-up turn of such a product ends in refine_query with no refined
\* query and no updated history
C28_AbsentImageRaises ==
    /\ (RefineCalled /\ args.product.t = "dict" /\ args.product.image = None)
       => (ret.kind = "raise" /\ ret.requests = <<>>)
    /\ (FollowUpCalled /\ args.search_product.image = None)
       => (/\ ret.kind = "raise"
           /\ ret.stage = "refine_query"
           /\ ret.val = None
           /\ ret.requests = <<>>)

\* a follow-up turn after a failed image selection, the model and the
\* knowledge base answering, ended in refine_query
C28_Witness ==
    /\ FollowUpCalled
    /\ args.search_product.image = None
    /\ world.llm.status = "ok"
    /\ world.kb.status = "ok"
    /\ Len(world.kb.results) >= 2
    /\ ret.exc = "MissingSchema"

\* C29: a follow-up turn in which every retrieved identifier is the
\* identifier of the current product chooses none: the turn raises before
\* any catalog lookup and before any image selection
C29_AllSeenRaises ==
    (/\ FollowUpCalled
     /\ world.kb.status = "ok"
     /\ Len(world.kb.results) >= 1
     /\ \A i \in 1..Len(RetrievedIds) :
           RetrievedIds[i] = args.search_product.asin)
    => /\ ret.kind = "raise"
       /\ ret.lookups = <<>>
       /\ \A i \in 1..Len(ret.requests) : ret.requests[i].system # "pick"

\* two hits, both the current product, in a turn whose query was refined:
\* the choice of the identifier raised IndexError
C29_Witness ==
    /\ FollowUpCalled
    /\ Len(world.kb.results) = 2
    /\ \A i \in 1..2 : RetrievedIds[i] = args.search_product.asin
    /\ ret.stage = "select"
    /\ ret.exc = "IndexError"
    /\ Len(ret.requests) = 1

\* C30: for an identifier that the catalog resolves, the asin field of
\* the record get_info_from_db returns is, as a string, the identifier of
\* the catalog row, which is the sanitized identifier looked up
C30_AsinFieldIsIdentifier ==
    (op = "get_info_from_db" /\ ret.kind = "return")
    => /\ ret.val.asin = SubNonWord(args.asin)
       /\ \E i \in 1..Len(world.db.rows) : world.db.rows[i].asin = ret.val.asin

====
